---------------------------- MODULE Spec2Model ----------------------------
(***************************************************************************)
(* Black-Scholes option pricing dashboard: the analytic pricer             *)
(* (black_scholes.py), the Monte Carlo estimator and the dashboard script  *)
(* with its price grid (app.py).                                           *)
(*                                                                         *)
(* Floating point numbers are modelled as fixed point numbers with three   *)
(* decimals plus the IEEE-754 special values (infinities, NaN, signed      *)
(* zero), which is what decides whether a call returns a price, returns   *)
(* NaN or raises.                                                          *)
(***************************************************************************)
EXTENDS Integers, Sequences, FiniteSets, TLC

(***************************************************************************)
(* Numbers.  A value is [k, s, v]: k is "fin", "inf" or "nan", s the sign  *)
(* (1 or -1; a zero has a sign too) and v the value times Scale.           *)
(***************************************************************************)
Scale == 1000

Fin(n) == [k |-> "fin", s |-> IF n < 0 THEN -1 ELSE 1, v |-> n]

NegZero == [k |-> "fin", s |-> -1, v |-> 0]

Inf(sgn) == [k |-> "inf", s |-> sgn, v |-> 0]

NaN == [k |-> "nan", s |-> 1, v |-> 0]

Abs(n) == IF n < 0 THEN -n ELSE n

\* A finite value from a sign and a magnitude (keeps the sign of a zero).
FinS(sgn, mag) == [k |-> "fin", s |-> sgn, v |-> sgn * mag]

IsNaN(x) == x.k = "nan"

IsFin(x) == x.k = "fin"

IsZero(x) == x.k = "fin" /\ x.v = 0

\* Rounded product and quotient of two magnitudes (scaled by Scale).
MulMag(a, b) ==
    LET hi == IF a >= b THEN a ELSE b
        lo == IF a >= b THEN b ELSE a
    IN  (hi \div Scale) * lo + ((hi % Scale) * lo + Scale \div 2) \div Scale

DivMag(a, b) == (a \div b) * Scale + ((a % b) * Scale + b \div 2) \div b

\* Unary minus.
Neg(x) == IF IsNaN(x) THEN NaN ELSE [k |-> x.k, s |-> -x.s, v |-> -x.v]

\* IEEE addition: inf + -inf is NaN, x + -x is +0, -0 + -0 is -0.
Add(x, y) ==
    IF IsNaN(x) \/ IsNaN(y) THEN NaN
    ELSE IF x.k = "inf" /\ y.k = "inf" THEN (IF x.s = y.s THEN x ELSE NaN)
    ELSE IF x.k = "inf" THEN x
    ELSE IF y.k = "inf" THEN y
    ELSE IF x.v + y.v = 0
         THEN FinS(IF x.s = -1 /\ y.s = -1 THEN -1 ELSE 1, 0)
         ELSE Fin(x.v + y.v)

Sub(x, y) == Add(x, Neg(y))

\* IEEE multiplication: inf * 0 is NaN.
Mul(x, y) ==
    IF IsNaN(x) \/ IsNaN(y) THEN NaN
    ELSE IF (x.k = "inf" /\ IsZero(y)) \/ (y.k = "inf" /\ IsZero(x)) THEN NaN
    ELSE IF x.k = "inf" \/ y.k = "inf" THEN Inf(x.s * y.s)
    ELSE FinS(x.s * y.s, MulMag(Abs(x.v), Abs(y.v)))

\* IEEE division (numpy scalars): x/0 is an infinity, 0/0 and inf/inf NaN.
Div(x, y) ==
    IF IsNaN(x) \/ IsNaN(y) THEN NaN
    ELSE IF x.k = "inf" /\ y.k = "inf" THEN NaN
    ELSE IF x.k = "inf" THEN Inf(x.s * y.s)
    ELSE IF y.k = "inf" THEN FinS(x.s * y.s, 0)
    ELSE IF y.v = 0 THEN (IF x.v = 0 THEN NaN ELSE Inf(x.s * y.s))
    ELSE FinS(x.s * y.s, DivMag(Abs(x.v), Abs(y.v)))

\* x < y and x >= y as Python compares floats: false when either is NaN.
Less(x, y) ==
    /\ ~IsNaN(x) /\ ~IsNaN(y)
    /\ IF x.k = "inf" THEN x.s = -1 /\ ~(y.k = "inf" /\ y.s = -1)
       ELSE IF y.k = "inf" THEN y.s = 1
       ELSE x.v < y.v

GreaterEq(x, y) == ~IsNaN(x) /\ ~IsNaN(y) /\ ~Less(x, y)

RECURSIVE Newton(_, _)
Newton(n, g) ==
    LET h == (g + n \div g) \div 2
    IN  IF h >= g THEN g ELSE Newton(n, h)

ISqrt(n) == IF n = 0 THEN 0 ELSE Newton(n, n)

\* numpy sqrt: NaN for a negative argument, the zero itself for a zero.
sqrt(x) ==
    IF IsNaN(x) THEN NaN
    ELSE IF x.k = "inf" THEN (IF x.s = 1 THEN x ELSE NaN)
    ELSE IF x.v = 0 THEN x
    ELSE IF x.v < 0 THEN NaN
    ELSE Fin(ISqrt(x.v * Scale))

\* Signed rounded product of two scaled integers.
MulS(a, b) == (IF (a < 0) = (b < 0) THEN 1 ELSE -1) * MulMag(Abs(a), Abs(b))

\* ln 2
Ln2 == (693 * Scale) \div 1000

\* ln of a positive scaled integer: halve or double into [1/2, 2], then
\* 2 * atanh((v - 1) / (v + 1)) by its series.
RECURSIVE LnFix(_)
LnFix(v) ==
    IF v > 2 * Scale THEN LnFix((v + 1) \div 2) + Ln2
    ELSE IF 2 * v < Scale THEN LnFix(2 * v) - Ln2
    ELSE LET d  == v - Scale
             y  == (IF d < 0 THEN -1 ELSE 1) * DivMag(Abs(d), v + Scale)
             y2 == MulS(y, y)
             y3 == MulS(y, y2)
             y5 == MulS(y3, y2)
             y7 == MulS(y5, y2)
         IN  2 * y + (2 * y3) \div 3 + (2 * y5) \div 5 + (2 * y7) \div 7

\* numpy log: -inf at zero, NaN below it.
log(x) ==
    IF IsNaN(x) THEN NaN
    ELSE IF x.k = "inf" THEN (IF x.s = 1 THEN x ELSE NaN)
    ELSE IF x.v = 0 THEN Inf(-1)
    ELSE IF x.v < 0 THEN NaN
    ELSE Fin(LnFix(x.v))

\* e^f for 0 <= f < 1, by Horner's form of the Taylor series.
RECURSIVE ExpHorner(_, _)
ExpHorner(f, j) ==
    IF j > 8 THEN Scale
    ELSE Scale + MulMag(f, ExpHorner(f, j + 1)) \div j

RECURSIVE EPow(_)
EPow(n) == IF n = 0 THEN Scale ELSE MulMag(EPow(n - 1), 2718)

\* e^v for a scaled integer v; below e^-20 the result rounds to zero.
ExpFix(v) ==
    IF v >= 0 THEN MulMag(EPow(v \div Scale), ExpHorner(v % Scale, 1))
    ELSE IF -v > 20 * Scale THEN 0
    ELSE DivMag(Scale, MulMag(EPow((-v) \div Scale), ExpHorner((-v) % Scale, 1)))

\* numpy exp: overflows to +inf above ln(max double) = 709.782...
exp(x) ==
    IF IsNaN(x) THEN NaN
    ELSE IF x.k = "inf" THEN (IF x.s = 1 THEN x ELSE Fin(0))
    ELSE IF x.v > 709 * Scale + 782 THEN Inf(1)
    ELSE Fin(ExpFix(x.v))

\* The upper tail 1 - Phi(z) at z = 0.0, 0.1, ..., 4.1.
TailTable ==
    << 500, 460, 421, 382, 345, 309, 274, 242, 212, 184,
       159, 136, 115,  97,  81,  67,  55,  45,  36,  29,
        23,  18,  14,  11,   8,   6,   5,   3,   3,   2,
         1,   1,   1,   0,   0,   0,   0,   0,   0,   0,
         0,   0 >>

\* 1 - Phi(z) for a scaled z >= 0, interpolated between the table's points.
UpperTail(z) ==
    LET step == Scale \div 10
        i    == z \div step
    IN  IF i >= 40 THEN 0
        ELSE LET a == TailTable[i + 1]
                 b == TailTable[i + 2]
             IN  a - ((a - b) * (z % step) + step \div 2) \div step

\* scipy norm.cdf: Phi by the complementary tail, 1 - tail above zero.
norm_cdf(x) ==
    IF IsNaN(x) THEN NaN
    ELSE IF x.k = "inf" THEN (IF x.s = 1 THEN Fin(Scale) ELSE Fin(0))
    ELSE IF x.v >= 0 THEN Fin(Scale - UpperTail(x.v))
    ELSE Fin(UpperTail(-x.v))

(***************************************************************************)
(* black_scholes.py: the analytic pricer.                                  *)
(***************************************************************************)
Half == Fin(Scale \div 2)

Zero == Fin(0)

\* What a call gives back: the values it returned, or the exception raised.
Returned(vals) == [vals |-> vals, status |-> "returned", exc |-> ""]

Raised(e) == [vals |-> << >>, status |-> "raised", exc |-> e]

\* Python's S / K.  A Python float divided by a zero float raises; when S is a
\* numpy scalar (the grid's spot values) the division follows IEEE instead.
ZeroDivision(S, K, S_is_numpy) == ~S_is_numpy /\ IsZero(K)

d1_of(S, K, T, sigma, r) ==
    Div(Add(log(Div(S, K)), Mul(Add(r, Mul(Half, Mul(sigma, sigma))), T)),
        Mul(sigma, sqrt(T)))

d2_of(S, K, T, sigma, r) == Sub(d1_of(S, K, T, sigma, r), Mul(sigma, sqrt(T)))

\* exp(-r * T)
Discount(r, T) == exp(Mul(Neg(r), T))

call_price(S, K, T, sigma, r) ==
    Sub(Mul(S, norm_cdf(d1_of(S, K, T, sigma, r))),
        Mul(Mul(K, Discount(r, T)), norm_cdf(d2_of(S, K, T, sigma, r))))

put_price(S, K, T, sigma, r) ==
    Sub(Mul(Mul(K, Discount(r, T)), norm_cdf(Neg(d2_of(S, K, T, sigma, r)))),
        Mul(S, norm_cdf(Neg(d1_of(S, K, T, sigma, r)))))

\* BlackScholes(S, K, T, sigma, r).calculate_prices()
calculate_prices(S, K, T, sigma, r, S_is_numpy) ==
    IF ZeroDivision(S, K, S_is_numpy) THEN Raised("ZeroDivisionError")
    ELSE Returned(<< call_price(S, K, T, sigma, r), put_price(S, K, T, sigma, r) >>)

(***************************************************************************)
(* app.py: the Monte Carlo estimator.  The process-wide generator of       *)
(* numpy.random is [seed, pos]: the seed that fixed its stream and the     *)
(* number of variates drawn from that stream since.                        *)
(***************************************************************************)
SEED == 42

\* Standard normal variates as the generator hands them out: a fixed
\* sequence per seed.
ZTable == << -1282, -524, 0, 524, 1282 >>

StdNormal(seed, pos) == Fin(ZTable[((seed + 2 * pos) % 5) + 1])

\* The estimator without its np.random.seed(42) line.
Reseed_Missing(g) == g

\* np.random.seed(42)
Reseed(g) == [seed |-> SEED, pos |-> 0]

\* np.random.standard_normal(simulations): the variates and the generator after.
standard_normal(g, n) == [i \in 1..n |-> StdNormal(g.seed, g.pos + i)]

Advance(g, n) == [seed |-> g.seed, pos |-> g.pos + n]

\* ST = S * np.exp((r - 0.5 * sigma ** 2) * T + sigma * np.sqrt(T) * Z)
TerminalPrice(S, T, sigma, r, z) ==
    Mul(S, exp(Add(Mul(Sub(r, Mul(Half, Mul(sigma, sigma))), T),
                   Mul(Mul(sigma, sqrt(T)), z))))

\* np.maximum(x, 0): NaN stays NaN.
np_maximum(x) == IF IsNaN(x) THEN NaN ELSE IF Less(x, Zero) THEN Zero ELSE x

\* The dispatch comparing without regard to case.
PayoffKind_AnyCase(option_type) ==
    IF option_type \in {"call", "Call"} THEN "call" ELSE "put"

\* if option_type == "call": ... else: ...
PayoffKind(option_type) == IF option_type = "call" THEN "call" ELSE "put"

\* The payoff without np.maximum's floor.
Payoff_NoFloor(st, K, option_type) ==
    IF PayoffKind(option_type) = "call" THEN Sub(st, K) ELSE Sub(K, st)

Payoff(st, K, option_type) ==
    IF PayoffKind(option_type) = "call" THEN np_maximum(Sub(st, K))
    ELSE np_maximum(Sub(K, st))

RECURSIVE SumSeq(_, _)
SumSeq(xs, n) == IF n = 0 THEN Zero ELSE Add(SumSeq(xs, n - 1), xs[n])

\* np.mean: NaN for an empty array.
np_mean(xs) ==
    IF Len(xs) = 0 THEN NaN ELSE Div(SumSeq(xs, Len(xs)), Fin(Len(xs) * Scale))

\* np.exp(-r * T) * np.mean(payoffs)
Estimate(r, T, payoffs) == Mul(Discount(r, T), np_mean(payoffs))

\* The result of a call that got as far as its arrays Z, ST and payoffs.
McResult(r, T, g, Z, ST, payoffs) ==
    [payoffs |-> payoffs, Z |-> Z, ST |-> ST,
     out |-> Returned(<< Estimate(r, T, payoffs) >>), rng |-> g]

McPayoffs(K, r, T, option_type, g, Z, ST) ==
    McResult(r, T, g, Z, ST, [n \in DOMAIN ST |-> Payoff(ST[n], K, option_type)])

McSimulate(S, K, T, sigma, r, option_type, g, Z) ==
    McPayoffs(K, r, T, option_type, g, Z,
              [n \in DOMAIN Z |-> TerminalPrice(S, T, sigma, r, Z[n])])

\* The call once the generator is seeded (g): standard_normal raises for a
\* negative count.
McDraw(S, K, T, sigma, r, simulations, option_type, g) ==
    IF simulations < 0
    THEN [payoffs |-> << >>, Z |-> << >>, ST |-> << >>,
          out |-> Raised("ValueError"), rng |-> g]
    ELSE McSimulate(S, K, T, sigma, r, option_type, Advance(g, simulations),
                    standard_normal(g, simulations))

\* monte_carlo_option_price(S, K, T, sigma, r, simulations, option_type), run
\* with the process-wide generator in state g: what it returns or raises, the
\* generator afterwards, and its local arrays Z, ST and payoffs.
monte_carlo_option_price(S, K, T, sigma, r, simulations, option_type, g) ==
    McDraw(S, K, T, sigma, r, simulations, option_type, Reseed(g))

(***************************************************************************)
(* app.py: the dashboard script.                                           *)
(***************************************************************************)
\* simulations=10000 in the source; the model draws this many variates.
DefaultSimulations == 3

\* np.linspace(lo, hi, num): num evenly spaced values, both ends included.
linspace(lo, hi, num) ==
    [n \in 0..(num - 1) |->
        IF n = num - 1 THEN hi
        ELSE Add(Mul(Fin(n * Scale), Div(Sub(hi, lo), Fin((num - 1) * Scale))), lo)]

\* The number of points of spot_range and of vol_range.
NumSpot == 10

NumVol == 10

\* np.zeros((rows, cols))
np_zeros(rows, cols) == [a \in 0..(rows - 1) |-> [b \in 0..(cols - 1) |-> Zero]]

\* The indices the wrong way round: matrix[j, i] = v.
StoreCell_Transposed(matrix, a, b, v) == [matrix EXCEPT ![b][a] = v]

\* matrix[i, j] = v
StoreCell(matrix, a, b, v) == [matrix EXCEPT ![a][b] = v]

\* matrix - scalar, element by element
MatrixMinus(matrix, x) ==
    [a \in DOMAIN matrix |-> [b \in DOMAIN matrix[a] |-> Sub(matrix[a][b], x)]]

\* f"{x:.2f}": the value rounded to two decimals, or "nan" / "inf".
Format2f(x) ==
    IF x.k = "fin"
    THEN [k |-> "fin", s |-> x.s, cents |-> (Abs(x.v) + 5) \div 10]
    ELSE [k |-> x.k, s |-> x.s, cents |-> 0]

\* The script with the metrics displayed after the grid loop.
ScriptOrder_GridFirst ==
    << "inputs", "price", "mc_call", "mc_put", "grid_init",
       "grid", "display", "pnl", "done" >>

\* The order of the script's statements (the steps the model tells apart).
ScriptOrder ==
    << "inputs", "price", "mc_call", "mc_put", "display",
       "grid_init", "grid", "pnl", "done" >>

After(step) ==
    ScriptOrder[(CHOOSE n \in 1..(Len(ScriptOrder) - 1) : ScriptOrder[n] = step) + 1]

\* A name the script has not bound yet, and a metric not shown yet.
Unbound == [k |-> "unbound", s |-> 1, v |-> 0]

NotShown == [k |-> "notshown", s |-> 1, cents |-> 0]

NothingShown ==
    [call |-> NotShown, put |-> NotShown, mc_call |-> NotShown,
     mc_put |-> NotShown, pnl_call |-> NotShown, pnl_put |-> NotShown]

NoInputs ==
    [S |-> Unbound, K |-> Unbound, T |-> Unbound, sigma |-> Unbound, r |-> Unbound,
     spot_lo |-> Unbound, spot_hi |-> Unbound, vol_lo |-> Unbound, vol_hi |-> Unbound,
     purchase_call |-> Unbound, purchase_put |-> Unbound]

NoOp ==
    [n |-> 0, option_type |-> "", payoffs |-> << >>, Z |-> << >>, ST |-> << >>,
     out |-> Raised(""), op |-> "none",
     p |-> [S |-> Zero, K |-> Zero, T |-> Zero, sigma |-> Zero, r |-> Zero],
     rngBefore |-> [seed |-> 0, pos |-> 0]]

VARIABLES
    rng,               \* numpy's process-wide generator
    last,              \* the last call made, with what it was given and gave
    remembered,        \* an earlier estimator call, kept for comparison
    args,              \* the arguments under test: [p, n, option_type]
    pc,                \* the script's position
    inp,               \* the sidebar's inputs
    spot_range, vol_range,
    call, put, pnl_call_single, pnl_put_single,
    monte_carlo_call, monte_carlo_put,
    shown,             \* the metrics as displayed
    call_prices, put_prices, i_vol, j_spot,
    pnl_call, pnl_put

callVars == << last, remembered, args >>

appVars ==
    << pc, inp, spot_range, vol_range, call, put, pnl_call_single, pnl_put_single,
       monte_carlo_call, monte_carlo_put, shown, call_prices, put_prices,
       i_vol, j_spot, pnl_call, pnl_put >>

vars == << rng, callVars, appVars >>

\* The script's names before a run has bound them.
FreshRun ==
    /\ inp = NoInputs
    /\ spot_range = << >> /\ vol_range = << >>
    /\ call = Unbound /\ put = Unbound
    /\ pnl_call_single = Unbound /\ pnl_put_single = Unbound
    /\ monte_carlo_call = Unbound /\ monte_carlo_put = Unbound
    /\ shown = NothingShown
    /\ call_prices = << >> /\ put_prices = << >>
    /\ i_vol = 0 /\ j_spot = 0
    /\ pnl_call = << >> /\ pnl_put = << >>

\* The generator starts seeded from the operating system's entropy.
Seeds == {SEED - 1, SEED}

NoArgs == [n |-> 0, option_type |-> "", p |-> NoOp.p]

Init ==
    /\ rng \in {[seed |-> sd, pos |-> 0] : sd \in Seeds}
    /\ last = NoOp
    /\ remembered = NoOp
    /\ args = NoArgs
    /\ pc = "inputs"
    /\ FreshRun

(***************************************************************************)
(* Calls of the two functions with arguments of the caller's choice.       *)
(***************************************************************************)
Params(S, K, T, sigma, r) == [S |-> S, K |-> K, T |-> T, sigma |-> sigma, r |-> r]

\* BlackScholes(**p).calculate_prices() with Python floats.
PriceCall(p) ==
    /\ last' = [op |-> "price", p |-> p, n |-> 0, option_type |-> "",
                rngBefore |-> rng,
                out |-> calculate_prices(p.S, p.K, p.T, p.sigma, p.r, FALSE),
                Z |-> << >>, ST |-> << >>, payoffs |-> << >>]
    /\ UNCHANGED << rng, remembered, args, appVars >>

\* monte_carlo_option_price(**p, simulations=n, option_type=t); with keep, the
\* caller holds on to the estimator call before this one.
MonteCarloCall(p, n, t, keep) ==
    \E res \in {monte_carlo_option_price(p.S, p.K, p.T, p.sigma, p.r, n, t, rng)} :
        /\ last' = [op |-> "mc", p |-> p, n |-> n, option_type |-> t,
                    rngBefore |-> rng, out |-> res.out,
                    Z |-> res.Z, ST |-> res.ST, payoffs |-> res.payoffs]
        /\ rng' = res.rng
        /\ remembered' = IF keep /\ last.op = "mc" THEN last ELSE remembered
        /\ UNCHANGED << args, appVars >>

\* Other code of the process seeds the process-wide generator ...
CallerSeed(sd) ==
    /\ rng' = [seed |-> sd, pos |-> 0]
    /\ last' = [NoOp EXCEPT !.op = "seed", !.rngBefore = rng]
    /\ UNCHANGED << remembered, args, appVars >>

\* ... or draws a variate from it.
MaxPos == 4

CallerDraw ==
    /\ rng.pos < MaxPos
    /\ rng' = Advance(rng, 1)
    /\ last' = [NoOp EXCEPT !.op = "draw", !.rngBefore = rng]
    /\ UNCHANGED << remembered, args, appVars >>

\* The arguments tried: valid ones, and each way of being invalid.
SpotSpace == {Fin(0), Fin(100 * Scale), Fin(110 * Scale)}

StrikeSpace == {Fin(0), Fin(100 * Scale)}

MaturitySpace == {Fin(-Scale), Fin(0), Fin(Scale)}

VolSpace == {Fin(-(Scale \div 5)), Fin(0), Fin(Scale \div 5)}

RateSpace == {Fin(-800 * Scale), Fin(Scale \div 20)}

ParamSpace ==
    {Params(S, K, T, sigma, r) :
        S \in SpotSpace, K \in StrikeSpace, T \in MaturitySpace,
        sigma \in VolSpace, r \in RateSpace}

TypeSpace == {"call", "put", "Call", ""}

Valid(p) ==
    /\ Less(Zero, p.S) /\ Less(Zero, p.K) /\ Less(Zero, p.T) /\ Less(Zero, p.sigma)

\* The two functions as functions of their arguments: the arguments are drawn
\* once, and the functions applied to them.
ArgSpace ==
    [n : -1..DefaultSimulations, option_type : TypeSpace, p : ParamSpace]

ArgInit ==
    /\ rng \in {[seed |-> sd, pos |-> 0] : sd \in Seeds}
    /\ last = NoOp
    /\ remembered = NoOp
    /\ args \in ArgSpace
    /\ pc = "inputs"
    /\ FreshRun

Next ==
    \/ PriceCall(args.p)
    \/ MonteCarloCall(args.p, args.n, args.option_type, FALSE)

Spec == ArgInit /\ [][Next]_vars

\* The same calls among other users of the process-wide generator.
GenParams ==
    {Params(S, Fin(100 * Scale), Fin(Scale), Fin(Scale \div 5), Fin(Scale \div 20)) :
        S \in {Fin(100 * Scale), Fin(110 * Scale)}}

GenNext ==
    \/ \E p \in GenParams : PriceCall(p)
    \/ \E p \in GenParams, n \in 1..DefaultSimulations, t \in {"call", "put"},
          keep \in BOOLEAN : MonteCarloCall(p, n, t, keep)
    \/ \E sd \in Seeds : CallerSeed(sd)
    \/ CallerDraw

GenSpec == Init /\ [][GenNext]_vars


(***************************************************************************)
(* One run of the script, and Streamlit running it again.                  *)
(***************************************************************************)
Pounds(n) == Fin(n * Scale)

\* What the sidebar can hand the script: number_input takes any float; the
\* spot slider starts at (0.8 S, 1.2 S) and reaches (0, 2 S) at most, the
\* volatility slider starts at (0.5 sigma, 1.5 sigma) and reaches (0.01, 1).
InputSpace ==
    {[S |-> S, K |-> K, T |-> T, sigma |-> Fin(Scale \div 5), r |-> Fin(Scale \div 20),
      spot_lo |-> Mul(S, sp[1]), spot_hi |-> Mul(S, sp[2]),
      vol_lo |-> vo[1], vol_hi |-> vo[2],
      purchase_call |-> pu[1], purchase_put |-> pu[2]] :
        S \in {Pounds(100), Pounds(50)},
        K \in {Pounds(100), Fin(0)},
        T \in {Fin(Scale), Fin(0)},
        sp \in {<< Fin((8 * Scale) \div 10), Fin((12 * Scale) \div 10) >>,
                << Fin(0), Fin(2 * Scale) >>},
        vo \in {<< Fin(Scale \div 10), Fin((3 * Scale) \div 10) >>,
                << Fin(Scale \div 100), Fin(Scale) >>},
        pu \in {<< Pounds(10), Pounds(10) >>, << Pounds(5), Pounds(12) >>}}

\* Lines 30-62: the inputs and the two axes.
ReadInputs ==
    /\ pc = "inputs"
    /\ \E x \in InputSpace :
          /\ inp' = x
          /\ spot_range' = linspace(x.spot_lo, x.spot_hi, NumSpot)
          /\ vol_range' = linspace(x.vol_lo, x.vol_hi, NumVol)
    /\ pc' = After("inputs")
    /\ UNCHANGED << rng, callVars, call, put, pnl_call_single, pnl_put_single,
                    monte_carlo_call, monte_carlo_put, shown, call_prices,
                    put_prices, i_vol, j_spot, pnl_call, pnl_put >>

\* Lines 66-69: the prices at the inputs and the single-value P&L.  An
\* exception ends the run.
BasePrice ==
    /\ pc = "price"
    /\ \E res \in {calculate_prices(inp.S, inp.K, inp.T, inp.sigma, inp.r, FALSE)} :
          IF res.status = "raised"
          THEN /\ pc' = "error"
               /\ UNCHANGED << call, put, pnl_call_single, pnl_put_single >>
          ELSE /\ pc' = After("price")
               /\ call' = res.vals[1]
               /\ put' = res.vals[2]
               /\ pnl_call_single' = Sub(res.vals[1], inp.purchase_call)
               /\ pnl_put_single' = Sub(res.vals[2], inp.purchase_put)
    /\ UNCHANGED << rng, callVars, inp, spot_range, vol_range,
                    monte_carlo_call, monte_carlo_put, shown, call_prices,
                    put_prices, i_vol, j_spot, pnl_call, pnl_put >>

\* Line 72
MonteCarloCallPrice ==
    /\ pc = "mc_call"
    /\ \E res \in {monte_carlo_option_price(inp.S, inp.K, inp.T, inp.sigma, inp.r,
                                            DefaultSimulations, "call", rng)} :
          /\ monte_carlo_call' = res.out.vals[1]
          /\ rng' = res.rng
    /\ pc' = After("mc_call")
    /\ UNCHANGED << callVars, inp, spot_range, vol_range, call, put,
                    pnl_call_single, pnl_put_single, monte_carlo_put, shown,
                    call_prices, put_prices, i_vol, j_spot, pnl_call, pnl_put >>

\* Line 73
MonteCarloPutPrice ==
    /\ pc = "mc_put"
    /\ \E res \in {monte_carlo_option_price(inp.S, inp.K, inp.T, inp.sigma, inp.r,
                                            DefaultSimulations, "put", rng)} :
          /\ monte_carlo_put' = res.out.vals[1]
          /\ rng' = res.rng
    /\ pc' = After("mc_put")
    /\ UNCHANGED << callVars, inp, spot_range, vol_range, call, put,
                    pnl_call_single, pnl_put_single, monte_carlo_call, shown,
                    call_prices, put_prices, i_vol, j_spot, pnl_call, pnl_put >>

\* Lines 76-96: the metrics and the P&L line, from the names as bound now.
Display ==
    /\ pc = "display"
    /\ shown' = [call |-> Format2f(call), put |-> Format2f(put),
                 mc_call |-> Format2f(monte_carlo_call),
                 mc_put |-> Format2f(monte_carlo_put),
                 pnl_call |-> Format2f(pnl_call_single),
                 pnl_put |-> Format2f(pnl_put_single)]
    /\ pc' = After("display")
    /\ UNCHANGED << rng, callVars, inp, spot_range, vol_range, call, put,
                    pnl_call_single, pnl_put_single, monte_carlo_call,
                    monte_carlo_put, call_prices, put_prices, i_vol, j_spot,
                    pnl_call, pnl_put >>

Length(f) == Cardinality(DOMAIN f)

\* Lines 101-102
GridInit ==
    /\ pc = "grid_init"
    /\ call_prices' = np_zeros(Length(vol_range), Length(spot_range))
    /\ put_prices' = np_zeros(Length(vol_range), Length(spot_range))
    /\ i_vol' = 0
    /\ j_spot' = 0
    /\ pc' = After("grid_init")
    /\ UNCHANGED << rng, callVars, inp, spot_range, vol_range, call, put,
                    pnl_call_single, pnl_put_single, monte_carlo_call,
                    monte_carlo_put, shown, pnl_call, pnl_put >>

\* Lines 104-109: one pass of the inner loop's body, for vol_range[i_vol] and
\* spot_range[j_spot]; spot and vol are numpy scalars.
GridCell ==
    /\ pc = "grid"
    /\ \E res \in {calculate_prices(spot_range[j_spot], inp.K, inp.T,
                                    vol_range[i_vol], inp.r, TRUE)} :
          /\ call' = res.vals[1]
          /\ put' = res.vals[2]
          /\ call_prices' = StoreCell(call_prices, i_vol, j_spot, res.vals[1])
          /\ put_prices' = StoreCell(put_prices, i_vol, j_spot, res.vals[2])
    /\ IF j_spot + 1 < Length(spot_range)
       THEN /\ j_spot' = j_spot + 1
            /\ UNCHANGED << i_vol, pc >>
       ELSE IF i_vol + 1 < Length(vol_range)
       THEN /\ j_spot' = 0
            /\ i_vol' = i_vol + 1
            /\ UNCHANGED pc
       ELSE /\ pc' = After("grid")
            /\ UNCHANGED << i_vol, j_spot >>
    /\ UNCHANGED << rng, callVars, inp, spot_range, vol_range,
                    pnl_call_single, pnl_put_single, monte_carlo_call,
                    monte_carlo_put, shown, pnl_call, pnl_put >>

\* Lines 112-113
ProfitLoss ==
    /\ pc = "pnl"
    /\ pnl_call' = MatrixMinus(call_prices, inp.purchase_call)
    /\ pnl_put' = MatrixMinus(put_prices, inp.purchase_put)
    /\ pc' = After("pnl")
    /\ UNCHANGED << rng, callVars, inp, spot_range, vol_range, call, put,
                    pnl_call_single, pnl_put_single, monte_carlo_call,
                    monte_carlo_put, shown, call_prices, put_prices, i_vol, j_spot >>

\* Streamlit runs the script again, in a fresh namespace and in the same
\* process: the generator keeps its state.
Rerun ==
    /\ pc \in {"done", "error"}
    /\ pc' = "inputs"
    /\ inp' = NoInputs
    /\ spot_range' = << >> /\ vol_range' = << >>
    /\ call' = Unbound /\ put' = Unbound
    /\ pnl_call_single' = Unbound /\ pnl_put_single' = Unbound
    /\ monte_carlo_call' = Unbound /\ monte_carlo_put' = Unbound
    /\ shown' = NothingShown
    /\ call_prices' = << >> /\ put_prices' = << >>
    /\ i_vol' = 0 /\ j_spot' = 0
    /\ pnl_call' = << >> /\ pnl_put' = << >>
    /\ UNCHANGED << rng, callVars >>

AppNext ==
    \/ ReadInputs
    \/ BasePrice
    \/ MonteCarloCallPrice
    \/ MonteCarloPutPrice
    \/ Display
    \/ GridInit
    \/ GridCell
    \/ ProfitLoss
    \/ Rerun

AppSpec == Init /\ [][AppNext]_vars

(***************************************************************************)
(* The properties.                                                         *)
(***************************************************************************)
\* C1: a call of the pricer, or of the estimator with a positive sample
\* count, with T <= 0, sigma <= 0, S <= 0 or K <= 0 fails; it never returns a
\* value.
C1_InvalidDomainRejected ==
    ((last.op = "price" \/ (last.op = "mc" /\ last.n >= 1)) /\ ~Valid(last.p))
        => last.out.status = "raised"

\* C2: a call of the estimator with a sample count n <= 0 (and valid
\* parameters) fails and returns no price.
C2_NonPositiveCountRejected ==
    (last.op = "mc" /\ last.n <= 0 /\ Valid(last.p)) => last.out.status = "raised"

LastVolIndex == Length(vol_range) - 1

LastSpotIndex == Length(spot_range) - 1

\* C3: once the nested loop has finished, call_prices and put_prices have one
\* row per volatility and one column per spot value, and cell [i][j] is the
\* pricer's call (put) price at S = spot_range[j], sigma = vol_range[i] and the
\* base K, T, r.
C3_GridMatchesPricer ==
    pc \in {"pnl", "done"} =>
        /\ Length(vol_range) = NumVol /\ Length(spot_range) = NumSpot
        /\ DOMAIN call_prices = 0..LastVolIndex
        /\ DOMAIN put_prices = 0..LastVolIndex
        /\ \A a \in 0..LastVolIndex :
              /\ DOMAIN call_prices[a] = 0..LastSpotIndex
              /\ DOMAIN put_prices[a] = 0..LastSpotIndex
              /\ \A b \in 0..LastSpotIndex :
                    /\ call_prices[a][b] =
                          call_price(spot_range[b], inp.K, inp.T, vol_range[a], inp.r)
                    /\ put_prices[a][b] =
                          put_price(spot_range[b], inp.K, inp.T, vol_range[a], inp.r)

\* A finished grid in which transposed cells differ.
C3_Witness ==
    /\ pc = "done"
    /\ IsFin(call_prices[0][LastSpotIndex])
    /\ IsFin(call_prices[LastVolIndex][0])
    /\ call_prices[0][LastSpotIndex] # call_prices[LastVolIndex][0]
    /\ call_prices[LastVolIndex][LastSpotIndex] # Zero

\* C4: a call of the pricer or of the estimator leaves the process-wide
\* generator in the state it found it in.
C4_GeneratorUntouched ==
    last.op \in {"price", "mc"} => rng = last.rngBefore

\* C5: the caller chooses the seed: when the generator was just seeded with s,
\* the variates the estimator draws are the first ones of the stream of s.
C5_CallerSeedFixesStream ==
    (last.op = "mc" /\ last.rngBefore.pos = 0) =>
        last.Z = [n \in 1..last.n |-> StdNormal(last.rngBefore.seed, n)]

SameArguments(c, d) ==
    c.p = d.p /\ c.n = d.n /\ c.option_type = d.option_type

\* C6: two calls of the estimator with the same arguments give the same
\* output, whatever was called or drawn before or between them.
C6_SameArgumentsSameOutput ==
    (last.op = "mc" /\ remembered.op = "mc" /\ SameArguments(last, remembered))
        => last.out = remembered.out

\* Two calls with the same arguments, the later one after another user
\* seeded the generator differently and drew from it.
C6_Witness ==
    /\ last.op = "mc" /\ remembered.op = "mc"
    /\ SameArguments(last, remembered)
    /\ last.rngBefore.seed # SEED
    /\ last.rngBefore.pos > 0
    /\ last.rngBefore # remembered.rngBefore
    /\ IsFin(last.out.vals[1]) /\ last.out.vals[1] # Zero

\* C7: each payoff is max(ST_i - K, 0) for a call and max(K - ST_i, 0)
\* otherwise, no payoff is negative (and for valid parameters each is a number
\* >= 0), and the estimate is exp(-r T) times the mean of the payoffs.
C7_PayoffFloorSingleDiscount ==
    (last.op = "mc" /\ last.out.status = "returned") =>
        /\ DOMAIN last.payoffs = 1..last.n
        /\ \A n \in 1..last.n :
              /\ last.payoffs[n] =
                    IF last.option_type = "call"
                    THEN np_maximum(Sub(last.ST[n], last.p.K))
                    ELSE np_maximum(Sub(last.p.K, last.ST[n]))
              /\ ~Less(last.payoffs[n], Zero)
              /\ Valid(last.p) => GreaterEq(last.payoffs[n], Zero)
        /\ last.out.vals[1] =
              Mul(exp(Mul(Neg(last.p.r), last.p.T)), np_mean(last.payoffs))

\* A call estimate from payoffs of which one is floored and one is not,
\* discounted by a factor other than 1.
C7_Witness ==
    /\ last.op = "mc" /\ last.out.status = "returned"
    /\ Valid(last.p) /\ last.option_type = "call" /\ last.n >= 2
    /\ \E n \in 1..last.n :
          Less(last.ST[n], last.p.K) /\ last.payoffs[n] = Zero
    /\ \E n \in 1..last.n : Less(Zero, last.payoffs[n])
    /\ IsFin(last.out.vals[1])
    /\ Less(Zero, last.out.vals[1])
    /\ last.out.vals[1] # np_mean(last.payoffs)

\* |x - y| <= tol, for two numbers.
Close(x, y, tol) == IsFin(x) /\ IsFin(y) /\ Abs(x.v - y.v) <= tol

\* C8: for valid parameters the pricer's call - put equals S - K exp(-r T)
\* (here: to within two units of the last decimal kept).
C8_PutCallParity ==
    (last.op = "price" /\ Valid(last.p)) =>
        /\ last.out.status = "returned"
        /\ Close(Sub(last.out.vals[1], last.out.vals[2]),
                 Sub(last.p.S, Mul(last.p.K, Discount(last.p.r, last.p.T))), 2)

\* C9: with any option_type other than "call" a call that gets as far as the
\* dispatch computes put payoffs and returns what it returns for "put".
C9_OtherTypesArePut ==
    (last.op = "mc" /\ last.option_type # "call" /\ last.n >= 0) =>
        /\ last.out.status = "returned"
        /\ \A n \in 1..last.n :
              last.payoffs[n] = np_maximum(Sub(last.p.K, last.ST[n]))
        /\ last.out =
              monte_carlo_option_price(last.p.S, last.p.K, last.p.T, last.p.sigma,
                                       last.p.r, last.n, "put", last.rngBefore).out

\* A call with an unrecognised option_type whose put payoffs are not the call
\* payoffs.
C9_Witness ==
    /\ last.op = "mc" /\ last.option_type \in {"Call", ""}
    /\ last.n >= 1 /\ last.out.status = "returned"
    /\ IsFin(last.out.vals[1])
    /\ \E n \in 1..last.n :
          last.payoffs[n] # np_maximum(Sub(last.ST[n], last.p.K))

BaseCall == call_price(inp.S, inp.K, inp.T, inp.sigma, inp.r)

BasePut == put_price(inp.S, inp.K, inp.T, inp.sigma, inp.r)

\* C10: the metrics and the single-value P&L shown are the pricer's values at
\* the base parameters, shown before the grid loop starts; after the loop call
\* and put hold the prices of the last cell.
C10_ShownValuesAreBase ==
    /\ shown.call # NotShown =>
          /\ shown.call = Format2f(BaseCall)
          /\ shown.put = Format2f(BasePut)
          /\ shown.pnl_call = Format2f(Sub(BaseCall, inp.purchase_call))
          /\ shown.pnl_put = Format2f(Sub(BasePut, inp.purchase_put))
    /\ (pc = "grid" \/ call_prices # << >>) => shown.call # NotShown
    /\ pc \in {"pnl", "done"} =>
          /\ call = call_price(spot_range[LastSpotIndex], inp.K, inp.T,
                               vol_range[LastVolIndex], inp.r)
          /\ put = put_price(spot_range[LastSpotIndex], inp.K, inp.T,
                             vol_range[LastVolIndex], inp.r)

\* A finished run whose call and put, as rebound by the loop, would display
\* differently from the metrics shown.
C10_Witness ==
    /\ pc = "done"
    /\ shown.call.k = "fin" /\ shown.put.k = "fin"
    /\ Format2f(call) # shown.call
    /\ Format2f(put) # shown.put
    /\ shown.pnl_call # Format2f(Sub(call, inp.purchase_call))

=============================================================================
